---- MODULE Spec2Model ----
(***************************************************************************)
(* Verification model of the SmolVLM benchmarking harness                  *)
(* (crates/kornia-models/src/smolvlm/benchmark.rs).                        *)
(*                                                                         *)
(* Spec       : one run_benchmarks invocation, stepped phase by phase,     *)
(*              with the host's accelerator state free to change.          *)
(* SpecReport : the reporting functions (to_string, print_benchmark_table, *)
(*              get_fps, compare_backends) applied to bounded outcome      *)
(*              sequences.                                                 *)
(* SpecWeb    : the web API of examples/web_api.rs, its handlers stepped   *)
(*              from one await to the next over concurrent requests.       *)
(***************************************************************************)
EXTENDS Integers, Sequences, FiniteSets, TLC

\* ------------------------------------------------------------------ bounds
\* Largest number of configurations (|backends| * |variants| * |devices|)
\* of one run_benchmarks invocation.
MaxConfigs == 4

\* Longest outcome sequence handed to the reporting functions.
MaxResults == 2

\* Number of HTTP requests the web API receives.
MaxRequests == 3

\* ------------------------------------------------------------ value sets
\* Backend identifiers (enum SmolVLMModel, named as in the demo's backends).
SmolVLMModel == {"Candle", "Onnx"}

\* Model variants.  Tiny, Small and Medium are the values benchmark.rs
\* names; Large is the tier the specification's glossary and the examples
\* name.
SmolVLMVariant == {"Tiny", "Small", "Medium", "Large"}

\* The variants a run's variant list is drawn from.
RunVariants == {"Small", "Large"}

\* Errors the three phases can return (error taxonomy of the harness).
LoadErrors == {"BackendLoadError"}
ProcessErrors == {"PreprocessError"}
GenerateErrors == {"GenerationError"}

\* Elapsed times, in nanoseconds, the phases of a run can measure.
LoadDurations == {1200000000}
ProcessDurations == {1500}
GenerateDurations == {2000000}

\* <<load, process, generate>> times, in nanoseconds, of the results handed
\* to the reporting functions.
ReportTimings ==
    {<<0, 0, 0>>, <<1200000000, 1500, 2000000>>, <<0, 1500, 150000000>>}

\* Texts generate can return.
Outputs == {"a cat"}

\* What running the nvidia-smi command can do on the host.
NvidiaSmiStates == {"absent", "exit_fail", "exit_ok"}

\* The hosts of a run: a macOS/aarch64 build, which never runs the command,
\* or any other build together with what the command does.
HostStates == {"macos_aarch64"} \cup NvidiaSmiStates

\* An Option is modelled as a sequence of length at most one.
None == <<>>
Some(x) == <<x>>

\* --------------------------------------------------------------- helpers
\* Non-empty duplicate-free sequences over S of length at most n.
Lists(S, n) ==
    {s \in UNION {[1..k -> S] : k \in 1..n} :
        \A i, j \in DOMAIN s : i # j => s[i] # s[j]}

Last(s) == s[Len(s)]

VARIABLES
    backends,      \* run_benchmarks argument
    variants,      \* run_benchmarks argument
    devices,       \* run_benchmarks argument (TRUE = CPU, FALSE = GPU)
    bi, vi, di,    \* positions of the three nested loops
    pc,            \* "iter" | "load" | "process" | "generate" | "done"
    nvidia_smi,    \* the host, as gpu_available sees it
    model,         \* the backend instances alive (benchmark_model's `model`)
    image_tensor,  \* TRUE while benchmark_model holds a processed image
    load_time,     \* local of benchmark_model
    process_time,  \* local of benchmark_model
    results,       \* the Vec<Result<BenchmarkResult, SmolVLMError>>
    visited,       \* history: every loop iteration and what its probe said
    attempted,     \* history: every benchmark_model call, in call order
    calls,         \* history: phases invoked by the current benchmark_model
    raised,        \* history: the error the failing phase returned, or None
    report,        \* what the last reporting function produced, or None
    model_size,    \* AppState.model_size
    app_model,     \* AppState.model: the Option inside the Mutex
    mutex,         \* the request holding AppState.model's Mutex, or 0
    requests       \* the HTTP requests received, each with its position

vars == <<backends, variants, devices, bi, vi, di, pc, nvidia_smi, model,
          image_tensor, load_time, process_time, results, visited,
          attempted, calls, raised, report, model_size, app_model, mutex,
          requests>>

web == <<model_size, app_model, mutex, requests>>
bench == <<backends, variants, devices, bi, vi, di, pc, nvidia_smi, model,
           image_tensor, load_time, process_time, results, visited,
           attempted, calls, raised, report>>

inputs == <<backends, variants, devices>>
locals == <<model, image_tensor, load_time, process_time>>

\* ------------------------------------------------------- gpu_available
\* A probe that takes any run of the command for an accelerator.
gpu_available_IsOk(host) ==
    IF host = "macos_aarch64" THEN FALSE
    ELSE host # "absent"

\* Command::new("nvidia-smi").output() fails when the command cannot be
\* run; .map(status.success()).unwrap_or(false) turns that, and an
\* unsuccessful exit, into false.
gpu_available(host) ==
    IF host = "macos_aarch64" THEN FALSE
    ELSE IF host = "absent" THEN FALSE
    ELSE host = "exit_ok"

\* ------------------------------------------------------ run_benchmarks
\* The configuration the three loop positions point at.
Current ==
    [backend |-> backends[bi], variant |-> variants[vi], use_cpu |-> devices[di]]

At == <<bi, vi, di>>

LoopsFinished == bi > Len(backends)

\* The loop positions after the innermost loop body ends: device is the
\* inner loop, variant the middle loop, backend the outer loop.
NextAt(b, v, d) ==
    IF d < Len(devices) THEN <<b, v, d + 1>>
    ELSE IF v < Len(variants) THEN <<b, v + 1, 1>>
    ELSE <<b + 1, 1, 1>>

Advance ==
    /\ bi' = NextAt(bi, vi, di)[1]
    /\ vi' = NextAt(bi, vi, di)[2]
    /\ di' = NextAt(bi, vi, di)[3]

\* A filter that lets every configuration through.
SkipsGpu_NoFilter(use_cpu, host) == FALSE

\* `if !use_cpu && !gpu_available() { continue; }`: the probe is only
\* evaluated for a GPU configuration.
SkipsGpu(use_cpu, host) == ~use_cpu /\ ~gpu_available(host)

ProbeOf(use_cpu, host) ==
    IF use_cpu THEN "none"
    ELSE IF gpu_available(host) THEN "avail" ELSE "unavail"

\* Loop iteration that skips a GPU configuration.
IterSkip ==
    /\ pc = "iter"
    /\ ~LoopsFinished
    /\ SkipsGpu(Current.use_cpu, nvidia_smi)
    /\ visited' = Append(visited, [at |-> At, probe |-> ProbeOf(Current.use_cpu, nvidia_smi)])
    /\ Advance
    /\ UNCHANGED <<web, inputs, pc, nvidia_smi, locals, results, attempted, calls,
                   raised, report>>

\* Loop iteration that calls benchmark_model.
IterCall ==
    /\ pc = "iter"
    /\ ~LoopsFinished
    /\ ~SkipsGpu(Current.use_cpu, nvidia_smi)
    /\ visited' = Append(visited, [at |-> At, probe |-> ProbeOf(Current.use_cpu, nvidia_smi)])
    /\ attempted' = Append(attempted, [at |-> At, config |-> Current])
    /\ calls' = <<>>
    /\ raised' = None
    /\ pc' = "load"
    /\ UNCHANGED <<web, inputs, bi, vi, di, nvidia_smi, locals, results, report>>

\* A return that keeps the backend instance alive.
PushAndContinue_Leak(outcome) ==
    /\ results' = Append(results, outcome)
    /\ model' = model
    /\ image_tensor' = FALSE
    /\ load_time' = 0
    /\ process_time' = 0
    /\ Advance
    /\ pc' = "iter"

\* A loop that stops at the first failed configuration.
PushAndContinue_Abort(outcome) ==
    /\ results' = Append(results, outcome)
    /\ model' = None
    /\ image_tensor' = FALSE
    /\ load_time' = 0
    /\ process_time' = 0
    /\ IF outcome.ok
       THEN Advance
       ELSE bi' = Len(backends) + 1 /\ vi' = 1 /\ di' = 1
    /\ pc' = "iter"

\* `results.push(result)` and the end of the loop body; benchmark_model's
\* locals (the backend instance among them) are dropped on its return.
PushAndContinue(outcome) ==
    /\ results' = Append(results, outcome)
    /\ model' = None
    /\ image_tensor' = FALSE
    /\ load_time' = 0
    /\ process_time' = 0
    /\ Advance
    /\ pc' = "iter"

\* The loops are exhausted: run_benchmarks returns results.
Return ==
    /\ pc = "iter"
    /\ LoopsFinished
    /\ pc' = "done"
    /\ UNCHANGED <<web, inputs, bi, vi, di, nvidia_smi, locals, results, visited,
                   attempted, calls, raised, report>>

\* ----------------------------------------------------- benchmark_model
\* An error conversion that forgets which error was returned.
PropagatedError_Replaced(e) == "GenerationError"

\* What `?` hands to the caller for a phase's error.
PropagatedError(e) == e

Failure(e) == [ok |-> FALSE, err |-> PropagatedError(e)]

BenchmarkResult(cfg, lt, pt, gt, out) ==
    [ok |-> TRUE, backend |-> cfg.backend, variant |-> cfg.variant,
     use_cpu |-> cfg.use_cpu, load_time |-> lt, process_time |-> pt,
     generate_time |-> gt, output |-> out]

\* load_backend(...) succeeds after d nanoseconds.
LoadOk ==
    /\ pc = "load"
    /\ \E d \in LoadDurations : load_time' = d
    /\ model' = Append(model, Current)
    /\ calls' = Append(calls, "load")
    /\ pc' = "process"
    /\ UNCHANGED <<web, inputs, bi, vi, di, nvidia_smi, image_tensor, process_time,
                   results, visited, attempted, raised, report>>

\* load_backend(...)? returns an error.
LoadFail ==
    /\ pc = "load"
    /\ \E e \in LoadErrors :
          /\ raised' = Some([phase |-> "load", err |-> e])
          /\ PushAndContinue(Failure(e))
    /\ calls' = Append(calls, "load")
    /\ UNCHANGED <<web, inputs, nvidia_smi, visited, attempted, report>>

\* model.process_image(image_path) succeeds after d nanoseconds.
ProcessOk ==
    /\ pc = "process"
    /\ \E d \in ProcessDurations : process_time' = d
    /\ image_tensor' = TRUE
    /\ calls' = Append(calls, "process")
    /\ pc' = "generate"
    /\ UNCHANGED <<web, inputs, bi, vi, di, nvidia_smi, model, load_time, results,
                   visited, attempted, raised, report>>

\* A process_image that is tried again after an error.
ProcessFail_Retry ==
    /\ pc = "process"
    /\ calls' = Append(calls, "process")
    /\ UNCHANGED <<web, inputs, bi, vi, di, pc, nvidia_smi, locals, results,
                   visited, attempted, raised, report>>

\* model.process_image(image_path)? returns an error.
ProcessFail ==
    /\ pc = "process"
    /\ \E e \in ProcessErrors :
          /\ raised' = Some([phase |-> "process", err |-> e])
          /\ PushAndContinue(Failure(e))
    /\ calls' = Append(calls, "process")
    /\ UNCHANGED <<web, inputs, nvidia_smi, visited, attempted, report>>

\* model.generate(...) succeeds after d nanoseconds: Ok(BenchmarkResult).
GenerateOk ==
    /\ pc = "generate"
    /\ \E d \in GenerateDurations, out \in Outputs :
          PushAndContinue(BenchmarkResult(Current, load_time, process_time, d, out))
    /\ calls' = Append(calls, "generate")
    /\ UNCHANGED <<web, inputs, nvidia_smi, visited, attempted, raised, report>>

\* model.generate(...)? returns an error.
GenerateFail ==
    /\ pc = "generate"
    /\ \E e \in GenerateErrors :
          /\ raised' = Some([phase |-> "generate", err |-> e])
          /\ PushAndContinue(Failure(e))
    /\ calls' = Append(calls, "generate")
    /\ UNCHANGED <<web, inputs, nvidia_smi, visited, attempted, report>>

\* ------------------------------------------------------------ the host
\* The host's accelerator state changes while the run is in progress.
HostChange ==
    /\ pc # "done"
    /\ nvidia_smi \in NvidiaSmiStates
    /\ \E h \in NvidiaSmiStates \ {nvidia_smi} : nvidia_smi' = h
    /\ UNCHANGED <<web, inputs, bi, vi, di, pc, locals, results, visited, attempted,
                   calls, raised, report>>

\* ------------------------------------------------------- specification
Init ==
    /\ backends \in Lists(SmolVLMModel, MaxConfigs)
    /\ variants \in Lists(RunVariants, MaxConfigs)
    /\ devices \in Lists(BOOLEAN, MaxConfigs)
    /\ Len(backends) * Len(variants) * Len(devices) <= MaxConfigs
    /\ bi = 1 /\ vi = 1 /\ di = 1
    /\ pc = "iter"
    /\ nvidia_smi \in HostStates
    /\ model = None
    /\ image_tensor = FALSE
    /\ load_time = 0
    /\ process_time = 0
    /\ results = <<>>
    /\ visited = <<>>
    /\ attempted = <<>>
    /\ calls = <<>>
    /\ raised = None
    /\ report = None
    /\ model_size = "small"
    /\ app_model = None
    /\ mutex = 0
    /\ requests = <<>>

Next ==
    \/ IterSkip
    \/ IterCall
    \/ LoadOk
    \/ LoadFail
    \/ ProcessOk
    \/ ProcessFail
    \/ GenerateOk
    \/ GenerateFail
    \/ Return
    \/ HostChange

Spec == Init /\ [][Next]_vars

\* ================================================================ reporting
\* ------------------------------------------------ Duration's Debug output
\* core::time::Duration's Debug impl: whole seconds print with unit s,
\* otherwise the largest of ms, us, ns that is not above the value; the
\* fraction is printed in full (no precision is given by the callers), so it
\* is kept here as the remainder below one unit.
DebugDuration(nanos) ==
    IF nanos >= 1000000000
    THEN [unit |-> "s", int |-> nanos \div 1000000000, frac |-> nanos % 1000000000]
    ELSE IF nanos >= 1000000
    THEN [unit |-> "ms", int |-> nanos \div 1000000, frac |-> nanos % 1000000]
    ELSE IF nanos >= 1000
    THEN [unit |-> "us", int |-> nanos \div 1000, frac |-> nanos % 1000]
    ELSE [unit |-> "ns", int |-> nanos, frac |-> 0]

\* `if use_cpu { "CPU" } else { "GPU" }`
DeviceName(use_cpu) == IF use_cpu THEN "CPU" ELSE "GPU"

\* ------------------------------------------------ BenchmarkResult::to_string
\* A total that leaves the load time out.
to_string_total_NoLoad(r) == r.process_time + r.generate_time

to_string_total(r) == r.load_time + r.process_time + r.generate_time

to_string(r) ==
    [backend |-> r.backend, variant |-> r.variant, device |-> DeviceName(r.use_cpu),
     load |-> DebugDuration(r.load_time),
     process |-> DebugDuration(r.process_time),
     generate |-> DebugDuration(r.generate_time),
     total |-> DebugDuration(to_string_total(r)),
     output |-> r.output]

\* ---------------------------------------------------- print_benchmark_table
table_row_total(r) == r.load_time + r.process_time + r.generate_time

TableLine(o) ==
    IF o.ok
    THEN [kind |-> "row", backend |-> o.backend, variant |-> o.variant,
          device |-> DeviceName(o.use_cpu),
          load |-> DebugDuration(o.load_time),
          process |-> DebugDuration(o.process_time),
          generate |-> DebugDuration(o.generate_time),
          total |-> DebugDuration(table_row_total(o))]
    ELSE [kind |-> "error", text |-> o.err]

TableHeader == <<[kind |-> "header"], [kind |-> "rule"]>>

\* A table that prints nothing for a failed outcome.
print_benchmark_table_SkipErrors(rs) ==
    LET oks == SelectSeq(rs, LAMBDA o : o.ok)
    IN TableHeader \o [i \in 1..Len(oks) |-> TableLine(oks[i])]

\* The lines printed, in order.
print_benchmark_table(rs) ==
    TableHeader \o [i \in 1..Len(rs) |-> TableLine(rs[i])]

\* ------------------------------------------------------------------ get_fps
\* A rate over load and process time together.
get_fps_LoadAndProcess(r) ==
    IF r.load_time + r.process_time > 0
    THEN [num |-> 1000000000, den |-> r.load_time + r.process_time]
    ELSE [num |-> 0, den |-> 1]

\* The f64 quotient is kept exact, as numerator over denominator:
\* process_time.as_secs_f64() is process_time / 10^9 seconds.
get_fps(r) ==
    IF r.process_time > 0
    THEN [num |-> 1000000000, den |-> r.process_time]
    ELSE [num |-> 0, den |-> 1]

\* "{:.2}": two decimals, rounded to nearest (ties to even).
FormatFps(q) ==
    LET whole == q.num \div q.den
        r0 == q.num % q.den
        d1 == (r0 * 10) \div q.den
        r1 == (r0 * 10) % q.den
        d2 == (r1 * 10) \div q.den
        r2 == (r1 * 10) % q.den
        up == IF 2 * r2 > q.den \/ (2 * r2 = q.den /\ d2 % 2 = 1) THEN 1 ELSE 0
        h == whole * 100 + d1 * 10 + d2 + up
    IN [int |-> h \div 100, frac |-> h % 100]

\* --------------------------------------------------------- compare_backends
\* `for variant in [Tiny, Small, Medium]` and `for use_cpu in [true, false]`
CompareVariants == <<"Tiny", "Small", "Medium">>
CompareDevices == <<TRUE, FALSE>>

\* The (variant, device) pairs the two loops go through, in order.
CompareGroups ==
    [k \in 1..(Len(CompareVariants) * Len(CompareDevices)) |->
        [variant |-> CompareVariants[((k - 1) \div Len(CompareDevices)) + 1],
         use_cpu |-> CompareDevices[((k - 1) % Len(CompareDevices)) + 1]]]

\* The filter_map: the successful results of one variant and device.
Filtered(rs, variant, use_cpu) ==
    SelectSeq(rs, LAMBDA o : o.ok /\ o.variant = variant /\ o.use_cpu = use_cpu)

compare_total(r) == r.process_time + r.generate_time

CompareLine(r) ==
    [backend |-> r.backend,
     process |-> DebugDuration(r.process_time),
     generate |-> DebugDuration(r.generate_time),
     total |-> DebugDuration(compare_total(r)),
     fps |-> FormatFps(get_fps(r))]

\* `if filtered.len() > 1`
IsCompared(filtered) == Len(filtered) > 1

Section(rs, g) ==
    LET filtered == Filtered(rs, g.variant, g.use_cpu)
    IN [variant |-> g.variant, device |-> DeviceName(g.use_cpu),
        lines |-> [i \in 1..Len(filtered) |-> CompareLine(filtered[i])],
        outputs |-> [i \in 1..Len(filtered) |->
                        [backend |-> filtered[i].backend,
                         output |-> filtered[i].output]]]

\* The sections appended to the comparison string, in order.
compare_backends(rs) ==
    LET shown == SelectSeq(CompareGroups,
                           LAMBDA g : IsCompared(Filtered(rs, g.variant, g.use_cpu)))
    IN [k \in 1..Len(shown) |-> Section(rs, shown[k])]

\* ------------------------------------------------- the reporting functions
\* The outcomes a results sequence handed to a reporting function holds.
SampleOutcomes ==
    {BenchmarkResult([backend |-> b, variant |-> v, use_cpu |-> u],
                     t[1], t[2], t[3], out) :
        b \in SmolVLMModel, v \in SmolVLMVariant, u \in BOOLEAN,
        t \in ReportTimings, out \in Outputs}
    \cup {Failure(e) : e \in LoadErrors \cup ProcessErrors \cup GenerateErrors}

CallToString ==
    /\ pc = "done"
    /\ \E i \in 1..Len(results) :
          /\ results[i].ok
          /\ report' = Some([fn |-> "to_string", arg |-> i,
                             out |-> to_string(results[i])])
    /\ UNCHANGED <<web, inputs, bi, vi, di, pc, nvidia_smi, locals, results,
                   visited, attempted, calls, raised>>

CallPrintTable ==
    /\ pc = "done"
    /\ report' = Some([fn |-> "print_benchmark_table", arg |-> 0,
                       out |-> print_benchmark_table(results)])
    /\ UNCHANGED <<web, inputs, bi, vi, di, pc, nvidia_smi, locals, results,
                   visited, attempted, calls, raised>>

CallGetFps ==
    /\ pc = "done"
    /\ \E i \in 1..Len(results) :
          /\ results[i].ok
          /\ report' = Some([fn |-> "get_fps", arg |-> i,
                             out |-> get_fps(results[i])])
    /\ UNCHANGED <<web, inputs, bi, vi, di, pc, nvidia_smi, locals, results,
                   visited, attempted, calls, raised>>

CallCompare ==
    /\ pc = "done"
    /\ report' = Some([fn |-> "compare_backends", arg |-> 0,
                       out |-> compare_backends(results)])
    /\ UNCHANGED <<web, inputs, bi, vi, di, pc, nvidia_smi, locals, results,
                   visited, attempted, calls, raised>>

InitReport ==
    /\ results \in UNION {[1..n -> SampleOutcomes] : n \in 0..MaxResults}
    /\ backends = <<>> /\ variants = <<>> /\ devices = <<>>
    /\ bi = 1 /\ vi = 1 /\ di = 1
    /\ pc = "done"
    /\ nvidia_smi = "absent"
    /\ model = None
    /\ image_tensor = FALSE
    /\ load_time = 0
    /\ process_time = 0
    /\ visited = <<>>
    /\ attempted = <<>>
    /\ calls = <<>>
    /\ raised = None
    /\ report = None
    /\ model_size = "small"
    /\ app_model = None
    /\ mutex = 0
    /\ requests = <<>>

NextReport ==
    \/ CallToString
    \/ CallPrintTable
    \/ CallGetFps
    \/ CallCompare

SpecReport == InitReport /\ [][NextReport]_vars

\* ================================================================== web API
\* Values of the MODEL_SIZE environment variable; "huge" is none of the
\* sizes load_model_handler knows.
ModelSizes == {"small", "medium", "large", "huge"}

\* What a multipart form of /api/analyze holds: an image field, a prompt
\* field, or a part that cannot be read.
Forms ==
    {[image |-> i, prompt |-> p, malformed |-> FALSE] : i, p \in BOOLEAN}
    \cup {[image |-> TRUE, prompt |-> TRUE, malformed |-> TRUE]}

NoForm == [image |-> FALSE, prompt |-> FALSE, malformed |-> FALSE]

Handlers == {"load", "analyze", "info"}

Response(status, body) == Some([status |-> status, body |-> body])

\* requests after request id has been answered.
Answered(id, position, response) ==
    [requests EXCEPT ![id].pc = position, ![id].response = response]

\* A request arrives at one of the three routes.
Arrive ==
    /\ Len(requests) < MaxRequests
    /\ \E h \in Handlers, f \in Forms :
          /\ h # "analyze" => f = NoForm
          /\ requests' = Append(requests,
                [handler |-> h, form |-> f, pc |-> "start", response |-> None])
    /\ UNCHANGED <<bench, model_size, app_model, mutex>>

\* ------------------------------------------------------ load_model_handler
\* `match state.model_size.as_str()`: the sizes that have a configuration.
IsValidSize(size) == size \in {"small", "medium", "large"}

\* lock().await, then `if model_guard.is_some()`: already loaded.
LoadAlreadyLoaded(id) ==
    /\ requests[id].handler = "load"
    /\ requests[id].pc = "start"
    /\ mutex = 0
    /\ app_model # None
    /\ requests' = Answered(id, "done", Response(200, "Model already loaded"))
    /\ UNCHANGED <<bench, model_size, app_model, mutex>>

\* lock().await, not loaded, and the size has no configuration: 400.
LoadInvalidSize(id) ==
    /\ requests[id].handler = "load"
    /\ requests[id].pc = "start"
    /\ mutex = 0
    /\ app_model = None
    /\ ~IsValidSize(model_size)
    /\ requests' = Answered(id, "done", Response(400, "Invalid model size"))
    /\ UNCHANGED <<bench, model_size, app_model, mutex>>

\* A load that gives the lock back while it sleeps.
LoadStart_Unlocked(id) ==
    /\ requests[id].handler = "load"
    /\ requests[id].pc = "start"
    /\ mutex = 0
    /\ app_model = None
    /\ IsValidSize(model_size)
    /\ requests' = [requests EXCEPT ![id].pc = "sleep"]
    /\ UNCHANGED <<bench, model_size, app_model, mutex>>

\* lock().await, not loaded, valid size: sleep(2 s).await with the guard held.
LoadStart(id) ==
    /\ requests[id].handler = "load"
    /\ requests[id].pc = "start"
    /\ mutex = 0
    /\ app_model = None
    /\ IsValidSize(model_size)
    /\ mutex' = id
    /\ requests' = [requests EXCEPT ![id].pc = "sleep"]
    /\ UNCHANGED <<bench, model_size, app_model>>

\* After the sleep SmolVLM::dummy returns an instance:
\* `*model_guard = Some(..)`, the answer, and the guard is dropped.
LoadFinish(id) ==
    /\ requests[id].handler = "load"
    /\ requests[id].pc = "sleep"
    /\ app_model' = Some([size |-> model_size, by |-> id])
    /\ mutex' = 0
    /\ requests' = Answered(id, "done", Response(200, "Model loaded successfully"))
    /\ UNCHANGED <<bench, model_size>>

\* After the sleep SmolVLM::dummy panics (its body is todo!()): nothing is
\* assigned, no answer is sent, the guard is dropped while unwinding.
LoadPanic(id) ==
    /\ requests[id].handler = "load"
    /\ requests[id].pc = "sleep"
    /\ mutex' = 0
    /\ requests' = [requests EXCEPT ![id].pc = "panicked"]
    /\ UNCHANGED <<bench, model_size, app_model>>

\* --------------------------------------------------------- analyze_handler
\* A form check that accepts a form without a prompt.
FormError_NoPromptCheck(form) ==
    IF form.malformed THEN Response(400, "Failed to process multipart form")
    ELSE IF ~form.image THEN Response(400, "Missing image data")
    ELSE None

\* The error the multipart loop and the two ok_or_else checks return, if any.
FormError(form) ==
    IF form.malformed THEN Response(400, "Failed to process multipart form")
    ELSE IF ~form.image THEN Response(400, "Missing image data")
    ELSE IF ~form.prompt THEN Response(400, "Missing prompt")
    ELSE None

\* The form is read and found wanting: 400, the lock is never taken.
AnalyzeReject(id) ==
    /\ requests[id].handler = "analyze"
    /\ requests[id].pc = "start"
    /\ FormError(requests[id].form) # None
    /\ requests' = Answered(id, "done", FormError(requests[id].form))
    /\ UNCHANGED <<bench, model_size, app_model, mutex>>

\* The form is read and complete: on to state.model.lock().await.
AnalyzeParsed(id) ==
    /\ requests[id].handler = "analyze"
    /\ requests[id].pc = "start"
    /\ FormError(requests[id].form) = None
    /\ requests' = [requests EXCEPT ![id].pc = "lock"]
    /\ UNCHANGED <<bench, model_size, app_model, mutex>>

\* What analyze_handler answers once it holds the guard.
AnalyzeAnswer(slot) ==
    IF slot = None
    THEN Response(503, "Model not loaded. Please load the model first.")
    ELSE Response(200, "simulated SmolVLM response")

\* The lock is taken, the slot is looked at, the answer is built and the
\* guard is dropped: there is no await in between.
AnalyzeLocked(id) ==
    /\ requests[id].handler = "analyze"
    /\ requests[id].pc = "lock"
    /\ mutex = 0
    /\ requests' = Answered(id, "done", AnalyzeAnswer(app_model))
    /\ UNCHANGED <<bench, model_size, app_model, mutex>>

\* ------------------------------------------------------------ info_handler
\* The "loaded" member of the JSON answer.
InfoBody(slot) == IF slot # None THEN "loaded: true" ELSE "loaded: false"

Info(id) ==
    /\ requests[id].handler = "info"
    /\ requests[id].pc = "start"
    /\ mutex = 0
    /\ requests' = Answered(id, "done", Response(200, InfoBody(app_model)))
    /\ UNCHANGED <<bench, model_size, app_model, mutex>>

\* ------------------------------------------------------------------- main
InitWeb ==
    /\ model_size \in ModelSizes
    /\ app_model = None
    /\ mutex = 0
    /\ requests = <<>>
    /\ backends = <<>> /\ variants = <<>> /\ devices = <<>>
    /\ bi = 1 /\ vi = 1 /\ di = 1
    /\ pc = "done"
    /\ nvidia_smi = "absent"
    /\ model = None
    /\ image_tensor = FALSE
    /\ load_time = 0
    /\ process_time = 0
    /\ results = <<>>
    /\ visited = <<>>
    /\ attempted = <<>>
    /\ calls = <<>>
    /\ raised = None
    /\ report = None

NextWeb ==
    \/ Arrive
    \/ \E id \in DOMAIN requests : LoadAlreadyLoaded(id)
    \/ \E id \in DOMAIN requests : LoadInvalidSize(id)
    \/ \E id \in DOMAIN requests : LoadStart(id)
    \/ \E id \in DOMAIN requests : LoadFinish(id)
    \/ \E id \in DOMAIN requests : LoadPanic(id)
    \/ \E id \in DOMAIN requests : AnalyzeReject(id)
    \/ \E id \in DOMAIN requests : AnalyzeParsed(id)
    \/ \E id \in DOMAIN requests : AnalyzeLocked(id)
    \/ \E id \in DOMAIN requests : Info(id)

SpecWeb == InitWeb /\ [][NextWeb]_vars

\* ===================================================== run_benchmarks claims
\* The cross-product of three lists, backend outermost and device innermost.
CrossProduct(B, V, D) ==
    [k \in 1..(Len(B) * Len(V) * Len(D)) |->
        [backend |-> B[((k - 1) \div (Len(V) * Len(D))) + 1],
         variant |-> V[(((k - 1) \div Len(D)) % Len(V)) + 1],
         use_cpu |-> D[((k - 1) % Len(D)) + 1]]]

\* The position triples of the full matrix, in cross-product order.
MatrixAt(k) ==
    <<((k - 1) \div (Len(variants) * Len(devices))) + 1,
      (((k - 1) \div Len(devices)) % Len(variants)) + 1,
      ((k - 1) % Len(devices)) + 1>>

MatrixSize == Len(backends) * Len(variants) * Len(devices)

\* The device list after the accelerator filter, for one probe answer.
IsKept(avail, use_cpu) == use_cpu \/ avail
DevicesAfterFilter(avail) ==
    IF avail THEN devices ELSE SelectSeq(devices, LAMBDA u : u)

\* The configuration a successful outcome reports.
ConfigOf(r) == [backend |-> r.backend, variant |-> r.variant, use_cpu |-> r.use_cpu]

ProbeAnswers == {visited[j].probe : j \in 1..Len(visited)} \ {"none"}

\* The outcomes are exactly the cross-product over the filtered devices,
\* for the probe answer avail.
IsFilteredMatrix(avail) ==
    LET X == CrossProduct(backends, variants, DevicesAfterFilter(avail))
    IN /\ Len(results) = Len(X)
       /\ Len(attempted) = Len(X)
       /\ \A i \in 1..Len(X) :
             /\ attempted[i].config = X[i]
             /\ results[i].ok => ConfigOf(results[i]) = X[i]

\* C1: run_benchmarks returns |backends| x |variants| x |devices remaining
\* after the accelerator filter| outcomes, the i-th outcome belonging to the
\* i-th configuration of the cross-product (backend outer, variant middle,
\* device inner).
C1_Claim ==
    pc = "done" => \E avail \in BOOLEAN : IsFilteredMatrix(avail)

\* In a run whose probes all gave the same answer the outcomes are the
\* filtered cross-product.
C1_StableProbe ==
    (pc = "done" /\ Cardinality(ProbeAnswers) <= 1) =>
        IsFilteredMatrix("avail" \in ProbeAnswers)

\* C2: a GPU configuration whose probe reported unavailable is never handed
\* to benchmark_model and gets no outcome; while no probe has reported
\* available, every call and every outcome is for the CPU.
C2_Thm ==
    /\ Len(results) <= Len(attempted)
    /\ \A j \in 1..Len(visited) :
          visited[j].probe = "unavail" =>
              \A i \in 1..Len(attempted) : attempted[i].at # visited[j].at
    /\ \A j \in 1..Len(visited) :
          (visited[j].probe = "none") = devices[visited[j].at[3]]
    /\ ("avail" \notin ProbeAnswers) =>
          /\ \A i \in 1..Len(attempted) : attempted[i].config.use_cpu
          /\ \A i \in 1..Len(results) : results[i].ok => results[i].use_cpu

C2_Witness ==
    /\ pc = "done"
    /\ ProbeAnswers = {"unavail"}
    /\ Len(visited) > Len(results)
    /\ Len(results) > 0

\* C3: all configurations of one run are filtered against one availability
\* snapshot: either every GPU configuration of the run is attempted or none.
C3_Claim ==
    pc = "done" =>
        \/ \A j \in 1..Len(visited) : visited[j].probe # "unavail"
        \/ \A j \in 1..Len(visited) : visited[j].probe # "avail"

PhasesThrough(p) ==
    CASE p = "load" -> <<"load">>
      [] p = "process" -> <<"load", "process">>
      [] p = "generate" -> <<"load", "process", "generate">>

ErrorsOf(p) ==
    CASE p = "load" -> LoadErrors
      [] p = "process" -> ProcessErrors
      [] p = "generate" -> GenerateErrors

DurationFields == {"load_time", "process_time", "generate_time"}

\* The outcome of the latest benchmark_model call has been pushed.
LatestPushed == results # <<>> /\ Len(results) = Len(attempted)

\* C4: when a phase of benchmark_model fails, the phases invoked for that
\* configuration are exactly those up to the failing one, the outcome is an
\* Err holding the error that phase returned, and it is no BenchmarkResult;
\* a later phase starts only while no phase has failed.
C4_Thm ==
    /\ pc = "load" => calls = <<>> /\ raised = None
    /\ pc = "process" => calls = <<"load">> /\ raised = None
    /\ pc = "generate" => calls = <<"load", "process">> /\ raised = None
    /\ (pc \in {"iter", "done"} /\ raised # None) =>
          /\ LatestPushed
          /\ calls = PhasesThrough(raised[1].phase)
          /\ ~Last(results).ok
          /\ Last(results).err = raised[1].err
          /\ Last(results).err \in ErrorsOf(raised[1].phase)
          /\ DOMAIN Last(results) = {"ok", "err"}
    /\ (pc \in {"iter", "done"} /\ LatestPushed /\ raised = None) =>
          /\ Last(results).ok
          /\ calls = <<"load", "process", "generate">>

C4_Witness ==
    /\ pc = "iter"
    /\ raised # None
    /\ raised[1].phase = "process"
    /\ calls = <<"load", "process">>
    /\ ~Last(results).ok

\* C5: whatever configurations fail, the run visits every configuration of
\* the matrix in order, calls benchmark_model for each one the filter keeps,
\* and returns one outcome per call; a failure outcome has no durations.
C5_Thm ==
    /\ \A i \in 1..Len(results) :
          ~results[i].ok => DOMAIN results[i] \cap DurationFields = {}
    /\ pc = "done" =>
          /\ Len(visited) = MatrixSize
          /\ \A k \in 1..Len(visited) : visited[k].at = MatrixAt(k)
          /\ Len(results) = Len(attempted)
          /\ [i \in 1..Len(attempted) |-> attempted[i].at] =
                SelectSeq([k \in 1..Len(visited) |-> visited[k].at],
                          LAMBDA a : \E k \in 1..Len(visited) :
                                        /\ visited[k].at = a
                                        /\ visited[k].probe # "unavail")

C5_Witness ==
    /\ pc = "done"
    /\ Len(results) >= 3
    /\ ~results[1].ok
    /\ results[2].ok
    /\ ~results[3].ok

\* The outcome has the fields that name a configuration.
CarriesConfig(o) == {"backend", "variant", "use_cpu"} \subseteq DOMAIN o

\* C6: every failure outcome carries the configuration whose execution
\* failed, so the failed configuration can be read from the outcome.
C6_Claim ==
    \A i \in 1..Len(results) :
        ~results[i].ok =>
            /\ CarriesConfig(results[i])
            /\ ConfigOf(results[i]) = attempted[i].config

\* ========================================================= reporting claims
\* The duration a printed Duration denotes.
UnitNanos(unit) ==
    CASE unit = "s" -> 1000000000
      [] unit = "ms" -> 1000000
      [] unit = "us" -> 1000
      [] unit = "ns" -> 1

DurationOf(f) == f.int * UnitNanos(f.unit) + f.frac

TotalDuration(r) == r.load_time + r.process_time + r.generate_time

Reported(fn) == report # None /\ report[1].fn = fn

\* C7: the total time printed by to_string and by the table row of a
\* successful result is load_time + process_time + generate_time, computed
\* from the three parts; a BenchmarkResult stores no total.
C7_Thm ==
    /\ \A i \in 1..Len(results) : "total" \notin DOMAIN results[i]
    /\ Reported("to_string") =>
          LET r == results[report[1].arg]
              out == report[1].out
          IN /\ DurationOf(out.total) = TotalDuration(r)
             /\ DurationOf(out.total) =
                   DurationOf(out.load) + DurationOf(out.process)
                       + DurationOf(out.generate)
    /\ Reported("print_benchmark_table") =>
          \A i \in 1..Len(results) :
              results[i].ok =>
                  LET line == report[1].out[Len(TableHeader) + i]
                  IN /\ line.kind = "row"
                     /\ DurationOf(line.total) = TotalDuration(results[i])
                     /\ DurationOf(line.total) =
                           DurationOf(line.load) + DurationOf(line.process)
                               + DurationOf(line.generate)

C7_Witness ==
    /\ Reported("to_string")
    /\ results[report[1].arg].load_time > 0
    /\ results[report[1].arg].process_time > 0
    /\ results[report[1].arg].generate_time > 0
    /\ report[1].out.total.unit = "s"

\* C8: the total compare_backends prints for a result is that result's total
\* duration, load_time + process_time + generate_time, as in the table.
C8_Claim ==
    Reported("compare_backends") =>
        \A k \in 1..Len(report[1].out) :
            LET sec == report[1].out[k]
                group == SelectSeq(results,
                                   LAMBDA o : /\ o.ok
                                              /\ o.variant = sec.variant
                                              /\ DeviceName(o.use_cpu) = sec.device)
            IN \A i \in 1..Len(sec.lines) :
                  /\ DurationOf(sec.lines[i].total) = TotalDuration(group[i])
                  /\ sec.lines[i].total = TableLine(group[i]).total

\* The number of successful results of one variant and device.
Successes(rs, v, u) ==
    Cardinality({i \in 1..Len(rs) : rs[i].ok /\ rs[i].variant = v /\ rs[i].use_cpu = u})

IsShown(out, v, u) ==
    \E k \in 1..Len(out) : out[k].variant = v /\ out[k].device = DeviceName(u)

\* C9: compare_backends shows a (variant, device) group exactly when it
\* has two or more successful results, for every variant and both devices.
C9_Claim ==
    Reported("compare_backends") =>
        \A v \in SmolVLMVariant, u \in BOOLEAN :
            IsShown(report[1].out, v, u) <=> Successes(results, v, u) >= 2

\* For the variants compare_backends lists, a group is shown exactly when
\* it has two or more successful results.
C9_ListedVariants ==
    Reported("compare_backends") =>
        \A v \in {"Tiny", "Small", "Medium"}, u \in BOOLEAN :
            IsShown(report[1].out, v, u) <=> Successes(results, v, u) >= 2

\* One over the process time in seconds, or zero for a zero process time.
ExpectedFps(process_nanos) ==
    IF process_nanos = 0
    THEN [num |-> 0, den |-> 1]
    ELSE [num |-> 1000000000, den |-> process_nanos]

C11_Thm ==
    Reported("print_benchmark_table") =>
        LET out == report[1].out
            h == Len(TableHeader)
        IN /\ Len(out) = h + Len(results)
           /\ \A k \in 1..h : out[k].kind \in {"header", "rule"}
           /\ \A i \in 1..Len(results) :
                 /\ results[i].ok =>
                       /\ out[h + i].kind = "row"
                       /\ out[h + i].backend = results[i].backend
                       /\ out[h + i].variant = results[i].variant
                       /\ out[h + i].device = DeviceName(results[i].use_cpu)
                       /\ DurationOf(out[h + i].load) = results[i].load_time
                       /\ DurationOf(out[h + i].process) = results[i].process_time
                       /\ DurationOf(out[h + i].generate) = results[i].generate_time
                 /\ ~results[i].ok =>
                       /\ out[h + i].kind = "error"
                       /\ out[h + i].text = results[i].err
                 /\ out[h + i] = print_benchmark_table(<<results[i]>>)[h + 1]

C11_Witness ==
    /\ Reported("print_benchmark_table")
    /\ Len(results) = 2
    /\ ~results[1].ok
    /\ results[2].ok
    /\ report[1].out[Len(TableHeader) + 1].kind = "error"
    /\ report[1].out[Len(TableHeader) + 2].kind = "row"

\* ============================================ benchmark_model life cycle
Phases == {"load", "process", "generate"}

NoDuplicates(s) == \A i, j \in 1..Len(s) : i # j => s[i] # s[j]

\* One step of a configuration's execution.
PhaseStep ==
    /\ pc = "iter" => pc' \in {"iter", "load", "done"}
    /\ pc = "load" => pc' \in {"load", "process", "iter"}
    /\ pc = "process" => pc' \in {"process", "generate", "iter"}
    /\ pc = "generate" => pc' \in {"generate", "iter"}
    /\ pc = "done" => pc' = "done"
    /\ (pc = "iter" /\ pc' = "load") => calls' = <<>> /\ raised' = None
    /\ (pc = "load" /\ pc' = "process") =>
          calls' = <<"load">> /\ raised' = None /\ results' = results
    /\ (pc = "process" /\ pc' = "generate") =>
          calls' = <<"load", "process">> /\ raised' = None /\ results' = results
    /\ (pc \in Phases /\ pc' = pc) => calls' = calls /\ results' = results
    /\ (pc \in Phases /\ pc' = "iter") =>
          /\ Len(results') = Len(results) + 1
          /\ calls' = Append(calls, pc)
          /\ Last(results').ok <=> (pc = "generate" /\ raised' = None)
          /\ ~Last(results').ok <=> (raised' # None /\ raised'[1].phase = pc)
    /\ NoDuplicates(calls')
    /\ \A i \in 1..Len(results) : Len(results') >= i /\ results'[i] = results[i]
    /\ \A i \in 1..Len(attempted) : Len(attempted') >= i /\ attempted'[i] = attempted[i]
    /\ NoDuplicates([i \in 1..Len(attempted') |-> attempted'[i].at])

\* C12: a configuration goes Loading -> Preprocessing -> Generating -> Done,
\* with Failed reachable from each phase and nothing after Done or Failed:
\* a phase starts only after the previous one succeeded and each phase is
\* invoked at most once per configuration.
C12_Thm == [][PhaseStep]_vars

C12_Witness ==
    /\ pc = "iter"
    /\ Len(results) = 2
    /\ ~results[1].ok
    /\ results[2].ok
    /\ calls = <<"load", "process", "generate">>

\* C13: the backend instance of a configuration is alive only while that
\* configuration's phases run: none is alive when a call starts, exactly the
\* current configuration's instance after its load, none once the outcome is
\* pushed or run_benchmarks has returned; at most one is alive at any time.
C13_Thm ==
    /\ Len(model) <= 1
    /\ pc = "load" => model = None
    /\ pc \in {"process", "generate"} =>
          model = Some(Last(attempted).config)
    /\ pc \in {"iter", "done"} => model = None /\ ~image_tensor

C13_Witness ==
    /\ pc = "done"
    /\ model = None
    /\ Len(results) >= 2
    /\ \E i \in 1..Len(results) : results[i].ok
    /\ \E i \in 1..Len(results) : ~results[i].ok /\ results[i].err = "GenerationError"

ProbeFails(host) == host \in {"absent", "exit_fail"}

\* A GPU configuration is looked at while the probe command cannot be run
\* or exits unsuccessfully.
FailedProbeStep ==
    (/\ pc = "iter"
     /\ ~LoopsFinished
     /\ ~devices[di]
     /\ ProbeFails(nvidia_smi)
     /\ visited' # visited)
        => /\ Last(visited').probe = "unavail"
           /\ results' = results
           /\ attempted' = attempted
           /\ pc' = "iter"

EveryCpuConfigurationRan ==
    pc = "done" =>
        \A k \in 1..MatrixSize :
            devices[MatrixAt(k)[3]] =>
                \E i \in 1..Len(results) : attempted[i].at = MatrixAt(k)

\* C14: a probe that cannot be run, or that exits unsuccessfully, counts as
\* "unavailable": the GPU configuration is skipped, nothing is recorded for
\* it, and the run goes on to give every CPU configuration its outcome.
C14_Thm == [][FailedProbeStep]_vars /\ []EveryCpuConfigurationRan

C14_Witness ==
    /\ pc = "done"
    /\ nvidia_smi = "absent"
    /\ ProbeAnswers = {"unavail"}
    /\ Len(devices) = 2
    /\ Len(results) = Len(visited) - Len(results)

\* ========================================================== web API claims
Ids == DOMAIN requests

HasAnswer(rs, id, body) ==
    rs[id].response # None /\ rs[id].response[1].body = body

\* Request id gets its answer in this step.
AnsweredNow(id) == requests[id].response = None /\ requests'[id].response # None

LoadedAnswers == {id \in Ids : HasAnswer(requests, id, "Model loaded successfully")}

LoadInv ==
    /\ Cardinality(LoadedAnswers) <= 1
    /\ \A id \in Ids :
          /\ requests[id].pc = "sleep" => mutex = id /\ app_model = None
          /\ HasAnswer(requests, id, "Model already loaded") => app_model # None
          /\ (requests[id].handler = "load" /\ requests[id].response # None
                /\ requests[id].response[1].status = 400) =>
                    /\ model_size \notin {"small", "medium", "large"}
                    /\ app_model = None
    /\ app_model # None =>
          /\ LoadedAnswers = {app_model[1].by}
          /\ model_size \in {"small", "medium", "large"}

LoadStep ==
    /\ app_model # None => app_model' = app_model
    /\ app_model' # app_model =>
          /\ mutex \in Ids
          /\ requests[mutex].handler = "load"
          /\ requests[mutex].pc = "sleep"
          /\ HasAnswer(requests', mutex, "Model loaded successfully")
    /\ \A id \in Ids :
          (AnsweredNow(id) /\ HasAnswer(requests', id, "Model already loaded")) =>
              app_model # None /\ app_model' = app_model

IsComplete(form) == form.image /\ form.prompt /\ ~form.malformed

AnalyzeInv ==
    \A id \in Ids :
        (requests[id].handler = "analyze" /\ requests[id].response # None) =>
            /\ requests[id].response[1].status = 200 =>
                  IsComplete(requests[id].form) /\ app_model # None
            /\ ~IsComplete(requests[id].form) =>
                  requests[id].response[1].status = 400

AnalyzeStep ==
    \A id \in Ids :
        /\ (requests[id].handler = "analyze" /\ requests'[id] # requests[id]) =>
              app_model' = app_model /\ mutex' = mutex
        /\ (requests[id].handler = "analyze" /\ AnsweredNow(id)
              /\ IsComplete(requests[id].form)) =>
                 requests'[id].response[1].status =
                     IF app_model = None THEN 503 ELSE 200
        /\ (requests[id].handler = "info" /\ AnsweredNow(id)) =>
              /\ app_model' = app_model
              /\ HasAnswer(requests', id, "loaded: true") <=> app_model # None
              /\ HasAnswer(requests', id, "loaded: false") <=> app_model = None

====
